---- MODULE Spec2Model ----
(***************************************************************************)
(* Model of the ray marcher and the camera of src/src/main.rs.             *)
(*                                                                         *)
(* Distances are f32 values in the source.  Here a distance is an integer  *)
(* number of units, and the only rounding operation the marcher performs   *)
(* (depth += scene_distance) rounds to the nearest value that has a        *)
(* MantBits-bit significand, ties to even, as IEEE-754 does with 24 bits.  *)
(* min and the comparisons are exact in IEEE-754 and exact here.  The      *)
(* scene function is the caller's closure: in Spec every sample is    *)
(* drawn from Samples (the same value again when the same point is sampled *)
(* again), in the render specifications the closure is fixed at Init.      *)
(* The scene closure returns finite values (spec 4.1); NaN and infinity    *)
(* appear only as the depth sentinels render writes.                       *)
(***************************************************************************)
EXTENDS Integers, Sequences, FiniteSets, TLC

\* ---------------------------------------------------------------- bounds
MantBits == 2
MaxFarClip == 4
MaxEpsilon == 2
MaxIter == 3
MaxSample == 3
MinSampleMag == 1
W == 2
H == 2

\* ------------------------------------------------------- f32 arithmetic
Abs(x) == IF x < 0 THEN -x ELSE x

RECURSIVE Pow2(_)
Pow2(n) == IF n = 0 THEN 1 ELSE 2 * Pow2(n - 1)

\* The quantum (unit in the last place) of a magnitude m >= 0.
RECURSIVE Quantum(_)
Quantum(m) == IF m < Pow2(MantBits) THEN 1 ELSE 2 * Quantum(m \div 2)

\* Round to nearest representable value, ties to the even significand.
RoundF(x) ==
    LET m == Abs(x)
        q == Quantum(m)
        lower == (m \div q) * q
        rem == m - lower
        up == IF 2 * rem > q THEN TRUE
              ELSE IF 2 * rem < q THEN FALSE
              ELSE (lower \div q) % 2 = 1
        r == IF rem = 0 THEN m ELSE IF up THEN lower + q ELSE lower
    IN  IF x < 0 THEN -r ELSE r

Representable(x) == RoundF(x) = x

\* f32 addition: the exact sum, rounded.
FAdd(a, b) == RoundF(a + b)

\* f32::min on finite values.
FMin(a, b) == IF b < a THEN b ELSE a

\* ------------------------------------------------------------- inputs
FarClips == {f \in 1..MaxFarClip : Representable(f)}
Epsilons == {e \in 1..MaxEpsilon : Representable(e)}
MaxIterations == 1..MaxIter
Samples == {s \in (0 - MinSampleMag)..MaxSample : Representable(s)}
NormalSamples == {s \in Samples : Abs(s) <= 1}
OptionSet == [max_iterations : MaxIterations, far_clip : FarClips, epsilon : Epsilons]

\* The options render is called with: the extreme far_clip and epsilon.
RenderOptionSet ==
    {o \in OptionSet : o.far_clip \in {1, MaxFarClip} /\ o.epsilon \in {1, MaxEpsilon}}

\* ------------------------------------------------------------ raymarch
RECURSIVE Gcd(_, _)
Gcd(a, b) == IF b = 0 THEN a ELSE Gcd(b, a % b)

\* Vec3::normalize.  A unit vector is represented by the primitive integer
\* vector of its direction; the zero vector normalizes to NaN components.
Normalize(x, y, z) ==
    LET g == Gcd(Gcd(Abs(x), Abs(y)), Abs(z))
    IN  IF g = 0 THEN [nan |-> TRUE, x |-> 0, y |-> 0, z |-> 0]
        ELSE [nan |-> FALSE, x |-> x \div g, y |-> y \div g, z |-> z \div g]

Vec3Zero == [nan |-> FALSE, x |-> 0, y |-> 0, z |-> 0]

NoResult == [tag |-> "None"]
MissedScene(i, nd) == [tag |-> "MissedScene", iterations |-> i, nearest_distance |-> nd]
ReachedMaxIterations(nd) == [tag |-> "ReachedMaxIterations", nearest_distance |-> nd]
HitScene(i, d, n) == [tag |-> "HitScene", iterations |-> i, depth |-> d, normal |-> n]

InitDepth == 0

InitNearestHuge(options) == MaxFarClip + MaxSample + 2
InitNearest(options) == options.far_clip

UpdateNearestLast(nearest_distance, scene_distance) == scene_distance
UpdateNearest(nearest_distance, scene_distance) == FMin(nearest_distance, scene_distance)

MissCheck(depth, options) == depth > options.far_clip

HitCheckInside(scene_distance, options) == scene_distance < 0
HitCheckLeq(scene_distance, options) == scene_distance <= options.epsilon
HitCheckAbs(scene_distance, options) == Abs(scene_distance) < options.epsilon
HitCheck(scene_distance, options) == scene_distance < options.epsilon

\* The order of the if / else if / else chain of one iteration.
ClassifyHitFirst(depth, scene_distance, options) ==
    IF HitCheck(scene_distance, options) THEN "hit"
    ELSE IF MissCheck(depth, options) THEN "miss"
    ELSE "advance"
Classify(depth, scene_distance, options) ==
    IF MissCheck(depth, options) THEN "miss"
    ELSE IF HitCheck(scene_distance, options) THEN "hit"
    ELSE "advance"

Advance(depth, scene_distance) == FAdd(depth, scene_distance)

LoopContinuesInclusive(i, options) == i <= options.max_iterations
LoopContinues(i, options) == i < options.max_iterations

NormalCallsCentral == 3 + 3
NormalCalls == 3

\* The locals of one raymarch call.  hist records, for every iteration
\* performed, the depth the sample was taken at and the sample; calls
\* counts the invocations of the scene closure.
StartMarch(options) ==
    [i |-> 0, depth |-> InitDepth, nearest_distance |-> InitNearest(options),
     ret |-> NoResult, hist |-> <<>>, calls |-> 0]

\* One iteration of the loop body, given the value the scene closure
\* returns at ray.at(depth) and at the three offset points.
Iteration(st, scene_distance, nx, ny, nz, options) ==
    LET nearest == UpdateNearest(st.nearest_distance, scene_distance)
        kind == Classify(st.depth, scene_distance, options)
        h == Append(st.hist, [depth |-> st.depth, scene_distance |-> scene_distance])
    IN  CASE kind = "miss" ->
               [st EXCEPT !.nearest_distance = nearest, !.hist = h,
                          !.calls = st.calls + 1,
                          !.ret = MissedScene(st.i, nearest)]
          [] kind = "hit" ->
               [st EXCEPT !.nearest_distance = nearest, !.hist = h,
                          !.calls = st.calls + 1 + NormalCalls,
                          !.ret = HitScene(st.i, st.depth, Normalize(nx, ny, nz))]
          [] OTHER ->
               [st EXCEPT !.nearest_distance = nearest, !.hist = h,
                          !.calls = st.calls + 1,
                          !.depth = Advance(st.depth, scene_distance),
                          !.i = st.i + 1]

\* Falling out of the loop.
Exhausted(st) == [st EXCEPT !.ret = ReachedMaxIterations(st.nearest_distance)]

Running(st) == st.ret.tag = "None"

\* ------------------------------------------------------ scene closures
\* The closures render is called with: finite-valued functions of the
\* point.  A point is the pixel's ray at a depth, or (axis 1..3) that point
\* moved by normal_epsilon along one axis.  All rays start at the camera
\* origin, so depth 0 is the same point for every pixel.
SampleSpan == MaxSample + MinSampleMag + 1

SceneSet == [base : 0..(SampleSpan - 1), dstep : {1, 2}, pstep : {0, 1}]

SceneFn(scene, row, col, depth, axis) ==
    LET ray == IF depth = 0 THEN 0 ELSE scene.pstep * (1 + row * W + col)
    IN  RoundF(((scene.base + scene.dstep * depth + ray + axis) % SampleSpan) - MinSampleMag)

\* The for loop of raymarch, run to its return.  (The set constructor only
\* binds the locals after the iteration to a value before the loop goes on.)
RECURSIVE MarchLoop(_, _, _, _, _)
MarchLoop(s, scene, row, col, options) ==
    IF ~Running(s) THEN s
    ELSE IF ~LoopContinues(s.i, options) THEN Exhausted(s)
    ELSE CHOOSE r \in {MarchLoop(next, scene, row, col, options) :
                        next \in {Iteration(s, SceneFn(scene, row, col, s.depth, 0),
                                            SceneFn(scene, row, col, s.depth, 1),
                                            SceneFn(scene, row, col, s.depth, 2),
                                            SceneFn(scene, row, col, s.depth, 3),
                                            options)}} : TRUE

raymarch(scene, row, col, options) ==
    CHOOSE r \in {MarchLoop(s0, scene, row, col, options) : s0 \in {StartMarch(options)}} : TRUE

\* -------------------------------------------------------- Camera::render
Pixels == (0..(H - 1)) \X (0..(W - 1))

Finite(v) == [kind |-> "finite", v |-> v]
Infinity == [kind |-> "inf", v |-> 0]
NaN == [kind |-> "nan", v |-> 0]

RenderResultNew ==
    [depth |-> [p \in Pixels |-> Finite(0)],
     proximity |-> [p \in Pixels |-> 0],
     normals |-> [p \in Pixels |-> Vec3Zero]]

\* The match on the result of raymarch, writing render_result[y][x].
WritePixelMaxAsMiss(rr, y, x, res) ==
    CASE res.tag = "HitScene" ->
           [rr EXCEPT !.depth[<<y, x>>] = Finite(res.depth),
                      !.normals[<<y, x>>] = res.normal]
      [] OTHER ->
           [rr EXCEPT !.depth[<<y, x>>] = Infinity,
                      !.proximity[<<y, x>>] = res.nearest_distance]
WritePixelColumnZero(rr, y, x, res) ==
    CASE res.tag = "MissedScene" ->
           [rr EXCEPT !.depth[<<y, 0>>] = Infinity,
                      !.proximity[<<y, 0>>] = res.nearest_distance]
      [] res.tag = "ReachedMaxIterations" ->
           [rr EXCEPT !.depth[<<y, 0>>] = NaN,
                      !.proximity[<<y, 0>>] = res.nearest_distance]
      [] res.tag = "HitScene" ->
           [rr EXCEPT !.depth[<<y, 0>>] = Finite(res.depth),
                      !.normals[<<y, 0>>] = res.normal]
WritePixel(rr, y, x, res) ==
    CASE res.tag = "MissedScene" ->
           [rr EXCEPT !.depth[<<y, x>>] = Infinity,
                      !.proximity[<<y, x>>] = res.nearest_distance]
      [] res.tag = "ReachedMaxIterations" ->
           [rr EXCEPT !.depth[<<y, x>>] = NaN,
                      !.proximity[<<y, x>>] = res.nearest_distance]
      [] res.tag = "HitScene" ->
           [rr EXCEPT !.depth[<<y, x>>] = Finite(res.depth),
                      !.normals[<<y, x>>] = res.normal]

\* The sequential loops of render from pixel number k on, row-major.
RECURSIVE RenderFrom(_, _, _, _)
RenderFrom(rr, k, scene, options) ==
    IF k = W * H THEN rr
    ELSE CHOOSE r \in {RenderFrom(WritePixel(rr, k \div W, k % W, m.ret),
                                   k + 1, scene, options) :
                        m \in {raymarch(scene, k \div W, k % W, options)}} : TRUE

RenderSequential(scene, options) == RenderFrom(RenderResultNew, 0, scene, options)

\* ---------------------------------------------------------------- state
\* options, st: the options and the locals of a raymarch call.
\* scene, render_result, y_pixel, x_pixel, pc: a render call.
\* results, written, sceneCalls: what raymarch returned for each pixel, how
\* often each pixel's depth entry was written, and the number of scene
\* invocations of the render call (history variables).
VARIABLES options, st, scene, render_result, y_pixel, x_pixel, pc,
          results, written, sceneCalls

vars == <<options, st, scene, render_result, y_pixel, x_pixel, pc,
          results, written, sceneCalls>>

renderVars == <<scene, render_result, y_pixel, x_pixel, pc, results, written, sceneCalls>>

\* --------------------------------------------------- a call of raymarch
\* The scene closure is a function of the point: a depth sampled before
\* yields the sample it yielded then.
SceneValues(s) ==
    IF \E j \in 1..Len(s.hist) : s.hist[j].depth = s.depth
    THEN {s.hist[j].scene_distance : j \in {k \in 1..Len(s.hist) : s.hist[k].depth = s.depth}}
    ELSE Samples

InitRenderIdle ==
    /\ scene = [base |-> 0, dstep |-> 1, pstep |-> 0]
    /\ render_result = RenderResultNew
    /\ y_pixel = 0
    /\ x_pixel = 0
    /\ pc = "idle"
    /\ results = [p \in Pixels |-> NoResult]
    /\ written = [p \in Pixels |-> 0]
    /\ sceneCalls = 0

Init ==
    /\ options \in OptionSet
    /\ st = StartMarch(options)
    /\ InitRenderIdle

Iterate ==
    /\ pc = "idle"
    /\ Running(st)
    /\ LoopContinues(st.i, options)
    /\ \E scene_distance \in SceneValues(st) :
         \E nx \in NormalSamples, ny \in NormalSamples, nz \in NormalSamples :
            st' = Iteration(st, scene_distance, nx, ny, nz, options)
    /\ UNCHANGED <<options, renderVars>>

ReturnMax ==
    /\ pc = "idle"
    /\ Running(st)
    /\ ~LoopContinues(st.i, options)
    /\ st' = Exhausted(st)
    /\ UNCHANGED <<options, renderVars>>

Next == Iterate \/ ReturnMax

Spec == Init /\ [][Next]_vars

\* ----------------------------------------------------- a call of render
InitRender ==
    /\ options \in RenderOptionSet
    /\ st = StartMarch(options)
    /\ scene \in SceneSet
    /\ render_result = RenderResultNew
    /\ y_pixel = 0
    /\ x_pixel = 0
    /\ pc = "loop"
    /\ results = [p \in Pixels |-> NoResult]
    /\ written = [p \in Pixels |-> 0]
    /\ sceneCalls = 0

\* The body of the two loops for one pixel.
PixelBody(y, x) ==
    \E m \in {raymarch(scene, y, x, options)} :
        /\ render_result' = WritePixel(render_result, y, x, m.ret)
        /\ results' = [results EXCEPT ![<<y, x>>] = m.ret]
        /\ written' = [written EXCEPT ![<<y, x>>] = @ + 1]
        /\ sceneCalls' = sceneCalls + m.calls

RenderPixel ==
    /\ pc = "loop"
    /\ y_pixel < H
    /\ PixelBody(y_pixel, x_pixel)
    /\ IF x_pixel + 1 < W
       THEN x_pixel' = x_pixel + 1 /\ y_pixel' = y_pixel
       ELSE x_pixel' = 0 /\ y_pixel' = y_pixel + 1
    /\ UNCHANGED <<options, st, scene, pc>>

RenderReturn ==
    /\ pc = "loop"
    /\ y_pixel = H
    /\ pc' = "returned"
    /\ UNCHANGED <<options, st, scene, render_result, y_pixel, x_pixel,
                   results, written, sceneCalls>>

NextRender == RenderPixel \/ RenderReturn

SpecRender == InitRender /\ [][NextRender]_vars

\* render is one thread of control that is never suspended.
FairSpecRender == SpecRender /\ WF_vars(NextRender)

\* ------------------------- render with the pixels evaluated in any order
RenderPixelAny ==
    /\ pc = "loop"
    /\ \E p \in Pixels :
          /\ written[p] = 0
          /\ PixelBody(p[1], p[2])
    /\ UNCHANGED <<options, st, scene, pc, y_pixel, x_pixel>>

RenderReturnAny ==
    /\ pc = "loop"
    /\ \A p \in Pixels : written[p] > 0
    /\ pc' = "returned"
    /\ UNCHANGED <<options, st, scene, render_result, y_pixel, x_pixel,
                   results, written, sceneCalls>>

NextAnyOrder == RenderPixelAny \/ RenderReturnAny

SpecAnyOrder == InitRender /\ [][NextAnyOrder]_vars

\* ------------------------------------------------ properties of raymarch
SampleValues(s) == {s.hist[j].scene_distance : j \in 1..Len(s.hist)}
MinOf(S) == CHOOSE m \in S : \A x \in S : m <= x
LastIter(s) == s.hist[Len(s.hist)]
Returned(s) == ~Running(s)
Iterated == Len(st'.hist) = Len(st.hist) + 1

\* C1 (as claimed): once an iteration has been performed, nearest_distance
\* is the minimum of the scene-distance samples taken so far.
C1_NearestIsMinOfSamples ==
    Len(st.hist) > 0 => st.nearest_distance = MinOf(SampleValues(st))

\* C1 (amended): at every point of the loop and in every returned result
\* that carries it, nearest_distance is the minimum of far_clip and of all
\* the scene-distance samples taken in the iterations performed.
C1_NearestIsMinWithFarClip ==
    LET m == MinOf({options.far_clip} \cup SampleValues(st))
    IN  /\ st.nearest_distance = m
        /\ st.ret.tag \in {"MissedScene", "ReachedMaxIterations"}
              => st.ret.nearest_distance = m

\* A returned result whose minimum is an earlier sample, not the last one.
C1_Witness ==
    /\ st.ret.tag \in {"MissedScene", "ReachedMaxIterations"}
    /\ Len(st.hist) >= 2
    /\ st.ret.nearest_distance < LastIter(st).scene_distance
    /\ st.ret.nearest_distance < options.far_clip

\* C2 (as claimed): a HitScene depth is strictly below far_clip and the
\* sample of the terminating iteration, taken at that depth, is below epsilon.
C2_HitDepthBelowFarClip ==
    st.ret.tag = "HitScene" =>
        /\ st.ret.depth < options.far_clip
        /\ LastIter(st).depth = st.ret.depth
        /\ LastIter(st).scene_distance < options.epsilon

\* C2 (amended): a HitScene depth is at most far_clip (it may equal it) and
\* the sample of the terminating iteration, taken at that depth, is strictly
\* below epsilon.
C2_HitDepthAtMostFarClip ==
    st.ret.tag = "HitScene" =>
        /\ st.ret.depth <= options.far_clip
        /\ LastIter(st).depth = st.ret.depth
        /\ LastIter(st).scene_distance < options.epsilon

\* A hit found after the ray has advanced.
C2_Witness ==
    /\ st.ret.tag = "HitScene"
    /\ st.ret.depth > 0
    /\ st.ret.iterations > 0

\* C3 (as claimed): when every sample along the ray is positive, the call
\* returns MissedScene, never HitScene or ReachedMaxIterations, and the
\* reported nearest_distance is at most far_clip.
C3_PositiveSceneMisses ==
    (Returned(st) /\ \A s \in SampleValues(st) : s > 0) =>
        /\ st.ret.tag = "MissedScene"
        /\ st.ret.nearest_distance <= options.far_clip

\* C3 (amended): when every sample along the ray is at least epsilon, the
\* call never returns HitScene; it returns MissedScene in the first
\* iteration that starts with depth above far_clip if there is one among
\* the max_iterations iterations, and ReachedMaxIterations otherwise; the
\* reported nearest_distance is at most far_clip.
C3_FarSceneMissesOrExhausts ==
    (\A s \in SampleValues(st) : s >= options.epsilon) =>
        /\ st.ret.tag # "HitScene"
        /\ st.nearest_distance <= options.far_clip
        /\ \A j \in 1..Len(st.hist) :
              st.hist[j].depth > options.far_clip =>
                  /\ j = Len(st.hist)
                  /\ st.ret = MissedScene(j - 1, st.nearest_distance)
        /\ st.ret.tag = "MissedScene" =>
              /\ LastIter(st).depth > options.far_clip
              /\ st.ret.nearest_distance <= options.far_clip
        /\ st.ret.tag = "ReachedMaxIterations" =>
              /\ Len(st.hist) = options.max_iterations
              /\ \A j \in 1..Len(st.hist) : st.hist[j].depth <= options.far_clip
              /\ st.ret.nearest_distance <= options.far_clip

\* A miss of a scene that stays at least epsilon away, after some steps.
C3_Witness ==
    /\ st.ret.tag = "MissedScene"
    /\ Len(st.hist) >= 3
    /\ \A s \in SampleValues(st) : s >= options.epsilon

\* C4 (as claimed): when ReachedMaxIterations is returned, max_iterations
\* iterations were performed, every sample was at least epsilon and the
\* accumulated depth is at most far_clip.
C4_MaxIterationsDepthWithinFarClip ==
    st.ret.tag = "ReachedMaxIterations" =>
        /\ Len(st.hist) = options.max_iterations
        /\ \A s \in SampleValues(st) : s >= options.epsilon
        /\ st.depth <= options.far_clip

\* C4 (amended): when ReachedMaxIterations is returned, max_iterations
\* iterations were performed, every sample was at least epsilon and every
\* sample was taken at a depth of at most far_clip (the depth after the
\* last step may exceed far_clip).
C4_MaxIterationsSamplesWithinFarClip ==
    st.ret.tag = "ReachedMaxIterations" =>
        /\ Len(st.hist) = options.max_iterations
        /\ \A j \in 1..Len(st.hist) :
              /\ st.hist[j].scene_distance >= options.epsilon
              /\ st.hist[j].depth <= options.far_clip

\* The budget ran out after several steps.
C4_Witness ==
    /\ st.ret.tag = "ReachedMaxIterations"
    /\ Len(st.hist) >= 2

\* C5: when max_iterations > 0 (and far_clip > 0) and the sample at the ray
\* origin is below epsilon, the call returns HitScene with iterations = 0
\* and depth = 0.
C5_OriginHit ==
    (options.max_iterations > 0 /\ options.far_clip > 0 /\ Len(st.hist) >= 1) =>
        /\ st.hist[1].depth = 0
        /\ st.hist[1].scene_distance < options.epsilon =>
              /\ st.ret.tag = "HitScene"
              /\ st.ret.iterations = 0
              /\ st.ret.depth = 0

\* The origin sample was below epsilon and the call has returned.
C5_Witness ==
    /\ Len(st.hist) = 1
    /\ st.hist[1].scene_distance < options.epsilon
    /\ Returned(st)

\* C8: in every iteration the sample is taken at the current depth and the
\* miss check on that depth comes first: depth > far_clip returns
\* MissedScene { iterations: i, nearest_distance } even when the sample is
\* below epsilon; otherwise a sample below epsilon returns HitScene at that
\* depth; depth moves, by the sample, only when neither check fires.
C8_MissCheckedBeforeHit ==
    [][Iterated =>
        LET d == st.depth
            s == LastIter(st').scene_distance
            missed == d > options.far_clip
            converged == s < options.epsilon
        IN  /\ LastIter(st').depth = d
            /\ missed => st'.ret = MissedScene(st.i, st'.nearest_distance)
            /\ (~missed /\ converged) =>
                  /\ st'.ret.tag = "HitScene"
                  /\ st'.ret.iterations = st.i
                  /\ st'.ret.depth = d
            /\ (missed \/ converged) => st'.depth = d
            /\ (~missed /\ ~converged) =>
                  /\ Running(st')
                  /\ st'.depth = FAdd(d, s)
                  /\ st'.i = st.i + 1]_vars

\* An iteration where both checks would fire: the miss won.
C8_Witness ==
    /\ st.ret.tag = "MissedScene"
    /\ LastIter(st).depth > options.far_clip
    /\ LastIter(st).scene_distance < options.epsilon

Tags(S) == {results[p].tag : p \in S}

\* C6: every pixel render has processed holds what the variant raymarch
\* returned for it prescribes: MissedScene gives depth +infinity, proximity
\* nearest_distance and the zero normal; ReachedMaxIterations gives depth
\* NaN, proximity nearest_distance and the zero normal; HitScene gives the
\* finite hit depth, the hit normal and proximity 0; an unprocessed pixel
\* holds the defaults; when render returns every pixel has been processed.
\* So the depth entry alone tells the three outcomes apart.
C6_PixelFollowsVariant ==
    /\ \A p \in Pixels :
          LET r == results[p]
          IN  /\ r.tag = "None" =>
                    /\ render_result.depth[p] = Finite(0)
                    /\ render_result.proximity[p] = 0
                    /\ render_result.normals[p] = Vec3Zero
              /\ r.tag = "MissedScene" =>
                    /\ render_result.depth[p] = Infinity
                    /\ render_result.proximity[p] = r.nearest_distance
                    /\ render_result.normals[p] = Vec3Zero
              /\ r.tag = "ReachedMaxIterations" =>
                    /\ render_result.depth[p] = NaN
                    /\ render_result.proximity[p] = r.nearest_distance
                    /\ render_result.normals[p] = Vec3Zero
              /\ r.tag = "HitScene" =>
                    /\ render_result.depth[p] = Finite(r.depth)
                    /\ render_result.proximity[p] = 0
                    /\ render_result.normals[p] = r.normal
              /\ render_result.depth[p].kind = "inf" <=> r.tag = "MissedScene"
              /\ render_result.depth[p].kind = "nan" <=> r.tag = "ReachedMaxIterations"
              /\ render_result.depth[p].kind = "finite" <=> r.tag \in {"HitScene", "None"}
    /\ pc = "returned" =>
          \A p \in Pixels : results[p] = raymarch(scene, p[1], p[2], options).ret

\* A returned frame that holds all three outcomes.
C6_Witness ==
    /\ pc = "returned"
    /\ Tags(Pixels) = {"MissedScene", "ReachedMaxIterations", "HitScene"}

C9_CallsWithinIterationBudget == sceneCalls <= W * H * options.max_iterations

\* C9 (amended): every render call returns, and it invokes the scene at
\* most W * H * (max_iterations + 3) times: at most max_iterations samples
\* per pixel plus the three samples of the normal of a hit.
C9_RenderTerminatesWithinBudget ==
    /\ <>(pc = "returned")
    /\ [](sceneCalls <= W * H * (options.max_iterations + 3))

\* A returned frame whose pixels all hit in the last iteration allowed.
C9_Witness ==
    /\ pc = "returned"
    /\ options.max_iterations > 1
    /\ sceneCalls = W * H * (options.max_iterations + 3)

====
